---- MODULE Spec2Model ----
(***************************************************************************)
(* Seat inventory and booking engine of class Flight (src/Airline.cpp).    *)
(* Characters are their ASCII codes, strings are sequences of codes, and   *)
(* the C++ 0-based cell seatMap[i][j] is seatMap[i + 1][j + 1] here.       *)
(***************************************************************************)
EXTENDS Integers, Sequences, FiniteSets, TLC

(***************************************************************************)
(* Bounds of the model.                                                    *)
(***************************************************************************)
\* capacities 1..MaxSmallCapacity are all explored, with the tier boundaries
MaxSmallCapacity == 5
\* seat labels typed by a user name rows 0..MaxLabelRow
MaxLabelRow == 1

\* capacities at the tier boundaries of calculateSeatLayout
BoundaryCapacities == {59, 60, 149, 150}
Capacities == (1..MaxSmallCapacity) \cup BoundaryCapacities

(***************************************************************************)
(* Characters and the standard library conversions the code relies on.     *)
(***************************************************************************)
INT_MAX == 2147483647

isdigit(c) == c >= 48 /\ c <= 57

isspace(c) == c = 32 \/ (c >= 9 /\ c <= 13)

toupper(c) == IF c >= 97 /\ c <= 122 THEN c - 32 ELSE c

\* std::to_string(int)
RECURSIVE to_string(_)
to_string(n) ==
    IF n < 0 THEN <<45>> \o to_string(0 - n)
    ELSE IF n < 10 THEN <<48 + n>>
    ELSE to_string(n \div 10) \o <<48 + (n % 10)>>

\* index (1-based) of the first character of s at or after i that is not
\* white space, Len(s) + 1 when there is none
RECURSIVE SkipSpace(_, _)
SkipSpace(s, i) ==
    IF i <= Len(s) /\ isspace(s[i]) THEN SkipSpace(s, i + 1) ELSE i

\* magnitude of the digits of s from i on, stopping at the first non-digit;
\* acc is the magnitude so far, -2 when it is exactly INT_MAX + 1 and -1
\* when it is larger
RECURSIVE ParseDigits(_, _, _)
ParseDigits(s, i, acc) ==
    IF i <= Len(s) /\ isdigit(s[i])
    THEN LET d == s[i] - 48
         IN  ParseDigits(s, i + 1,
                IF acc < 0 \/ acc > INT_MAX \div 10 THEN -1
                ELSE IF acc = INT_MAX \div 10 /\ d > 7 THEN (IF d = 8 THEN -2 ELSE -1)
                ELSE acc * 10 + d)
    ELSE acc

\* std::stoi(s): leading white space, an optional sign, then digits; what
\* follows the digits is ignored.  exc is "" or the exception thrown.
stoi(s) ==
    LET i0     == SkipSpace(s, 1)
        signed == i0 <= Len(s) /\ (s[i0] = 43 \/ s[i0] = 45)
        neg    == signed /\ s[i0] = 45
        i1     == IF signed THEN i0 + 1 ELSE i0
        mag    == ParseDigits(s, i1, 0)
    IN  IF ~(i1 <= Len(s) /\ isdigit(s[i1]))
        THEN [exc |-> "invalid_argument", val |-> 0]
        ELSE IF mag = -1 \/ (mag = -2 /\ ~neg)
        THEN [exc |-> "out_of_range", val |-> 0]
        ELSE IF mag = -2 THEN [exc |-> "", val |-> (0 - INT_MAX) - 1]
        ELSE [exc |-> "", val |-> IF neg THEN 0 - mag ELSE mag]

(***************************************************************************)
(* Seat layout.                                                            *)
(***************************************************************************)
\* the aisle test the code repeats inline wherever it walks or checks columns
IsAisle(totalColumns, j) ==
    \/ totalColumns = 5 /\ j = 2
    \/ totalColumns = 7 /\ j = 3
    \/ totalColumns = 11 /\ (j = 3 \/ j = 8)

\* calculateSeatLayout with the first threshold taken inclusively
calculateSeatLayout_Inclusive(capacity) ==
    IF capacity <= 60 THEN [seatsPerRow |-> 2, totalColumns |-> 5]
    ELSE IF capacity < 150 THEN [seatsPerRow |-> 3, totalColumns |-> 7]
    ELSE [seatsPerRow |-> 5, totalColumns |-> 11]


calculateSeatLayout(capacity) ==
    IF capacity < 60 THEN [seatsPerRow |-> 2, totalColumns |-> 5]
    ELSE IF capacity < 150 THEN [seatsPerRow |-> 3, totalColumns |-> 7]
    ELSE [seatsPerRow |-> 5, totalColumns |-> 11]

\* std::vector::resize(n, v): keeps the first n elements, pads with v
resize(vec, n, v) ==
    [k \in 1..n |-> IF k <= Len(vec) THEN vec[k] ELSE v]

\* while (col < limit && seatsLeft > 0) { row[col] = false; col++; seatsLeft--; }
RECURSIVE FillAvailable(_, _, _, _)
FillAvailable(row, col, seatsLeft, limit) ==
    IF col < limit /\ seatsLeft > 0
    THEN FillAvailable([row EXCEPT ![col + 1] = FALSE], col + 1, seatsLeft - 1, limit)
    ELSE [row |-> row, col |-> col, seatsLeft |-> seatsLeft]

\* while (col < totalColumns) { row[col] = true; col++; }
RECURSIVE FillUnavailable(_, _, _)
FillUnavailable(row, col, totalColumns) ==
    IF col < totalColumns
    THEN FillUnavailable([row EXCEPT ![col + 1] = TRUE], col + 1, totalColumns)
    ELSE row

\* the last row when capacity leaves a remainder
PartialRow(old, remainingSeats, seatsPerRow, totalColumns) ==
    LET r0 == resize(old, totalColumns, FALSE)
        a  == FillAvailable(r0, 0, remainingSeats, seatsPerRow)
        b  == FillAvailable(a.row, a.col + 1, a.seatsLeft, totalColumns)
    IN  FillUnavailable(b.row, b.col, totalColumns)

\* every other row
FullRow(old, totalColumns) ==
    LET r0 == resize(old, totalColumns, FALSE)
    IN  [k \in 1..totalColumns |->
            IF IsAisle(totalColumns, k - 1) THEN TRUE ELSE r0[k]]

\* number of cells outside the aisle columns that are flagged available
CountAvailable(map, totalColumns) ==
    Cardinality({ij \in UNION {{<<i, j>> : j \in 1..Len(map[i])} : i \in 1..Len(map)} :
                    /\ ~IsAisle(totalColumns, ij[2] - 1)
                    /\ ~map[ij[1]][ij[2]]})

\* the correction loops: walk the cells from the last row and last column
\* backwards and flag available ones unavailable while excessSeats > 0
RECURSIVE MarkExcess(_, _, _, _, _)
MarkExcess(map, i, j, excessSeats, totalColumns) ==
    IF i < 0 \/ excessSeats <= 0 THEN map
    ELSE IF j < 0
    THEN MarkExcess(map, i - 1, IF i >= 1 THEN Len(map[i]) - 1 ELSE -1,
                    excessSeats, totalColumns)
    ELSE IF IsAisle(totalColumns, j) THEN MarkExcess(map, i, j - 1, excessSeats, totalColumns)
    ELSE IF ~map[i + 1][j + 1]
    THEN MarkExcess([map EXCEPT ![i + 1][j + 1] = TRUE], i, j - 1,
                    excessSeats - 1, totalColumns)
    ELSE MarkExcess(map, i, j - 1, excessSeats, totalColumns)

initializeSeatMap(old, capacity, seatsPerRow, totalColumns) ==
    LET seatsPerFullRow == totalColumns - 1
        fullRows        == capacity \div seatsPerFullRow
        remainingSeats  == capacity % seatsPerFullRow
        totalRows       == fullRows + (IF remainingSeats > 0 THEN 1 ELSE 0)
        rows            == resize(old, totalRows, <<>>)
        filled          == [i \in 1..totalRows |->
                              IF i - 1 = totalRows - 1 /\ remainingSeats > 0
                              THEN PartialRow(rows[i], remainingSeats, seatsPerRow, totalColumns)
                              ELSE FullRow(rows[i], totalColumns)]
        totalSeats      == CountAvailable(filled, totalColumns)
    IN  IF totalSeats > capacity
        THEN MarkExcess(filled, totalRows - 1, totalColumns - 1,
                        totalSeats - capacity, totalColumns)
        ELSE filled

(***************************************************************************)
(* Seat labels.                                                            *)
(***************************************************************************)
NoException == [type |-> "", what |-> ""]

ValidationException(msg) == [type |-> "ValidationException", what |-> msg]

BookingException(msg) == [type |-> "BookingException", what |-> msg]

\* ShiftColumn that takes the letter index for the column index
ShiftColumn_NoShift(totalColumns, col) == col

\* ShiftColumn that starts each shift one letter late
ShiftColumn_LateShift(totalColumns, col) ==
    IF totalColumns = 5 THEN (IF col > 2 THEN col + 1 ELSE col)
    ELSE IF totalColumns = 7 THEN (IF col > 3 THEN col + 1 ELSE col)
    ELSE IF totalColumns = 11
    THEN (IF col > 3 /\ col <= 7 THEN col + 1
          ELSE IF col > 7 THEN col + 2 ELSE col)
    ELSE col

\* the column index of base letter index col, moved past the aisles
ShiftColumn(totalColumns, col) ==
    IF totalColumns = 5 THEN (IF col >= 2 THEN col + 1 ELSE col)
    ELSE IF totalColumns = 7 THEN (IF col >= 3 THEN col + 1 ELSE col)
    ELSE IF totalColumns = 11
    THEN (IF col >= 3 /\ col < 7 THEN col + 1
          ELSE IF col >= 7 THEN col + 2 ELSE col)
    ELSE col

\* exc is NoException and (row, col) the indices, or exc is the exception
\* that leaves the function; the outer handler rethrows every exception as a
\* ValidationException
seatNumberToIndices(totalColumns, seatNumber) ==
    IF Len(seatNumber) < 2
    THEN [exc |-> ValidationException("Invalid seat number format"), row |-> 0, col |-> 0]
    ELSE LET n         == stoi(SubSeq(seatNumber, 1, Len(seatNumber) - 1))
             colLetter == toupper(seatNumber[Len(seatNumber)])
         IN  IF n.exc = "invalid_argument"
             THEN [exc |-> ValidationException("Invalid row number in seat"),
                   row |-> 0, col |-> 0]
             ELSE IF n.exc # ""
             THEN [exc |-> ValidationException("stoi"), row |-> 0, col |-> 0]
             ELSE IF colLetter >= 65 /\ colLetter <= 90
             THEN [exc |-> NoException, row |-> n.val - 1,
                   col |-> ShiftColumn(totalColumns, colLetter - 65)]
             ELSE [exc |-> ValidationException("Invalid column letter in seat"),
                   row |-> 0, col |-> 0]

\* indicesToSeatNumber that steps back over one aisle only
indicesToSeatNumber_OneAisle(totalColumns, row, col) ==
    LET adjustedCol ==
            IF totalColumns = 5 THEN (IF col > 2 THEN col - 1 ELSE col)
            ELSE IF totalColumns = 7 THEN (IF col > 3 THEN col - 1 ELSE col)
            ELSE IF totalColumns = 11 THEN (IF col > 3 THEN col - 1 ELSE col)
            ELSE col
    IN  to_string(row + 1) \o <<65 + adjustedCol>>


indicesToSeatNumber(totalColumns, row, col) ==
    LET adjustedCol ==
            IF totalColumns = 5 THEN (IF col > 2 THEN col - 1 ELSE col)
            ELSE IF totalColumns = 7 THEN (IF col > 3 THEN col - 1 ELSE col)
            ELSE IF totalColumns = 11
            THEN (IF col > 3 /\ col <= 8 THEN col - 1
                  ELSE IF col > 8 THEN col - 2 ELSE col)
            ELSE col
    IN  to_string(row + 1) \o <<65 + adjustedCol>>

(***************************************************************************)
(* Booking operations.  Each returns its result, the exceptions it caught  *)
(* and reported, and the cells of seatMap it read or wrote.  Indexing a    *)
(* vector outside its size is undefined: such a read yields ub, either     *)
(* value, and such a write leaves the grid as it is.                       *)
(***************************************************************************)
InGrid(map, row, col) ==
    row >= 0 /\ row < Len(map) /\ col >= 0 /\ col < Len(map[row + 1])

\* seatMap[row][col]
ReadCell(map, row, col, ub) ==
    IF InGrid(map, row, col) THEN map[row + 1][col + 1] ELSE ub

\* seatMap[row][col] = v
WriteCell(map, row, col, v) ==
    IF InGrid(map, row, col) THEN [map EXCEPT ![row + 1][col + 1] = v] ELSE map

\* OutOfRange without the test for a negative row
OutOfRange_NoLowerBound(map, totalColumns, row, col) ==
    row >= Len(map) \/ col < 0 \/ col >= totalColumns

\* row < 0 || row >= seatMap.size() || col < 0 || col >= totalColumns
OutOfRange(map, totalColumns, row, col) ==
    row < 0 \/ row >= Len(map) \/ col < 0 \/ col >= totalColumns

isSeatAvailable(map, totalColumns, seatNumber, ub) ==
    LET indices == seatNumberToIndices(totalColumns, seatNumber)
        row     == indices.row
        col     == indices.col
    IN  IF indices.exc # NoException
        THEN [result |-> FALSE, errors |-> <<indices.exc>>, cells |-> {}]
        ELSE IF OutOfRange(map, totalColumns, row, col)
        THEN [result |-> FALSE,
              errors |-> <<ValidationException("Seat number out of range")>>,
              cells |-> {}]
        ELSE IF IsAisle(totalColumns, col)
        THEN [result |-> FALSE,
              errors |-> <<ValidationException("Cannot book an aisle")>>,
              cells |-> {}]
        ELSE [result |-> ~ReadCell(map, row, col, ub), errors |-> <<>>,
              cells |-> {<<row, col>>}]

\* bookSeat that forgets to decrement availableSeats
bookSeat_KeepsCount(map, avail, totalColumns, seatNumber, ub) ==
    LET check   == isSeatAvailable(map, totalColumns, seatNumber, ub)
        indices == seatNumberToIndices(totalColumns, seatNumber)
    IN  IF ~check.result
        THEN [result |-> FALSE, seatMap |-> map, availableSeats |-> avail,
              errors |-> check.errors \o <<BookingException("is not available")>>,
              cells |-> check.cells]
        ELSE [result |-> TRUE,
              seatMap |-> WriteCell(map, indices.row, indices.col, TRUE),
              availableSeats |-> avail,
              errors |-> <<>>,
              cells |-> check.cells \cup {<<indices.row, indices.col>>}]


\* bookSeat that counts the seat before it validates the label
bookSeat_CountsFirst(map, avail, totalColumns, seatNumber, ub) ==
    LET r == bookSeat_KeepsCount(map, avail, totalColumns, seatNumber, ub)
    IN  [r EXCEPT !.availableSeats = avail - 1]

bookSeat(map, avail, totalColumns, seatNumber, ub) ==
    LET check   == isSeatAvailable(map, totalColumns, seatNumber, ub)
        indices == seatNumberToIndices(totalColumns, seatNumber)
    IN  IF ~check.result
        THEN [result |-> FALSE, seatMap |-> map, availableSeats |-> avail,
              errors |-> check.errors \o <<BookingException("is not available")>>,
              cells |-> check.cells]
        ELSE [result |-> TRUE,
              seatMap |-> WriteCell(map, indices.row, indices.col, TRUE),
              availableSeats |-> avail - 1,
              errors |-> <<>>,
              cells |-> check.cells \cup {<<indices.row, indices.col>>}]

\* cancelSeat without the test that the seat is occupied
cancelSeat_NoOccupiedCheck(map, avail, totalColumns, seatNumber, ub) ==
    LET indices == seatNumberToIndices(totalColumns, seatNumber)
        row     == indices.row
        col     == indices.col
        failed(e, read) == [result |-> FALSE, seatMap |-> map, availableSeats |-> avail,
                            errors |-> <<e>>, cells |-> read]
    IN  IF indices.exc # NoException THEN failed(indices.exc, {})
        ELSE IF OutOfRange(map, totalColumns, row, col)
        THEN failed(ValidationException("Seat number out of range"), {})
        ELSE IF IsAisle(totalColumns, col)
        THEN failed(ValidationException("Cannot cancel an aisle"), {})
        ELSE [result |-> TRUE,
              seatMap |-> WriteCell(map, row, col, FALSE),
              availableSeats |-> avail + 1,
              errors |-> <<>>,
              cells |-> {<<row, col>>}]


cancelSeat(map, avail, totalColumns, seatNumber, ub) ==
    LET indices == seatNumberToIndices(totalColumns, seatNumber)
        row     == indices.row
        col     == indices.col
        failed(e, read) == [result |-> FALSE, seatMap |-> map, availableSeats |-> avail,
                            errors |-> <<e>>, cells |-> read]
    IN  IF indices.exc # NoException THEN failed(indices.exc, {})
        ELSE IF OutOfRange(map, totalColumns, row, col)
        THEN failed(ValidationException("Seat number out of range"), {})
        ELSE IF IsAisle(totalColumns, col)
        THEN failed(ValidationException("Cannot cancel an aisle"), {})
        ELSE IF ~ReadCell(map, row, col, ub)
        THEN failed(BookingException("is already available"), {<<row, col>>})
        ELSE [result |-> TRUE,
              seatMap |-> WriteCell(map, row, col, FALSE),
              availableSeats |-> avail + 1,
              errors |-> <<>>,
              cells |-> {<<row, col>>}]

\* getFirstAvailableSeat that scans column by column
getFirstAvailableSeat_ColumnMajor(map, totalColumns) ==
    LET free == {ij \in UNION {{<<i, j>> : j \in 0..(Len(map[i + 1]) - 1)} :
                                    i \in 0..(Len(map) - 1)} :
                    ~IsAisle(totalColumns, ij[2]) /\ ~map[ij[1] + 1][ij[2] + 1]}
        first == CHOOSE ij \in free :
                    \A other \in free :
                        ij[2] < other[2] \/ (ij[2] = other[2] /\ ij[1] <= other[1])
    IN  IF free = {} THEN <<>> ELSE indicesToSeatNumber(totalColumns, first[1], first[2])

\* "" when no cell outside the aisle columns is flagged available
getFirstAvailableSeat(map, totalColumns) ==
    LET free == {ij \in UNION {{<<i, j>> : j \in 0..(Len(map[i + 1]) - 1)} :
                                    i \in 0..(Len(map) - 1)} :
                    ~IsAisle(totalColumns, ij[2]) /\ ~map[ij[1] + 1][ij[2] + 1]}
        first == CHOOSE ij \in free :
                    \A other \in free :
                        ij[1] < other[1] \/ (ij[1] = other[1] /\ ij[2] <= other[2])
    IN  IF free = {} THEN <<>> ELSE indicesToSeatNumber(totalColumns, first[1], first[2])

isFullyBooked(avail) == avail = 0

(***************************************************************************)
(* The text of flights.txt and of a seat-map file.                         *)
(***************************************************************************)
Comma == 44
Newline == 10
Quote == 34

\* the fields, each followed by sep except the last
RECURSIVE Join(_, _)
Join(fields, sep) ==
    IF fields = <<>> THEN <<>>
    ELSE IF Len(fields) = 1 THEN fields[1]
    ELSE fields[1] \o <<sep>> \o Join(Tail(fields), sep)

\* the strings successive getline(stream, s, delim) calls yield until one
\* fails: a last piece without delimiter counts only if it is not empty
RECURSIVE getline(_, _)
getline(text, delim) ==
    IF text = <<>> THEN <<>>
    ELSE IF \E k \in 1..Len(text) : text[k] = delim
    THEN LET k == CHOOSE k \in 1..Len(text) :
                    text[k] = delim /\ \A m \in 1..(k - 1) : text[m] # delim
         IN  <<SubSeq(text, 1, k - 1)>> \o getline(SubSeq(text, k + 1, Len(text)), delim)
    ELSE <<text>>

NotEmpty(s) == s # <<>>

\* Flight::saveToFile: the text handed to saveDataOverwrite for the seat map
RECURSIVE SeatRowText(_)
SeatRowText(row) ==
    IF row = <<>> THEN <<Newline>>
    ELSE <<(IF Head(row) THEN 49 ELSE 48), Comma>> \o SeatRowText(Tail(row))

\* the seat-map text with all rows on one line
RECURSIVE SeatMapText_OneLine(_)
SeatMapText_OneLine(map) ==
    IF map = <<>> THEN <<>>
    ELSE SubSeq(SeatRowText(Head(map)), 1, 2 * Len(Head(map)))
            \o SeatMapText_OneLine(Tail(map))

RECURSIVE SeatMapText(_)
SeatMapText(map) ==
    IF map = <<>> THEN <<>>
    ELSE SeatRowText(Head(map)) \o SeatMapText(Tail(map))

\* DatabaseManager::saveDataOverwrite, then what loadData returns for the
\* file: empty data deletes the file, and a missing file reads as ""
saveDataOverwrite(data) == data

\* DatabaseManager::saveData on a file just truncated
saveData(data) == IF data = <<>> THEN <<>> ELSE data \o <<Newline>>

\* Flight::loadFlights: the grid read from the text of a seat-map file
ParseSeatRow(seatLine) ==
    LET tokens == SelectSeq(getline(seatLine, Comma), NotEmpty)
    IN  [k \in 1..Len(tokens) |-> tokens[k] = <<49>>]

ParseSeatData(seatData) ==
    LET lines == getline(seatData, Newline)
    IN  SelectSeq([k \in 1..Len(lines) |-> ParseSeatRow(lines[k])], NotEmpty)

\* Flight::loadFlights: the fields of a line, split at the commas outside
\* double quotes, the quotes dropped
NotQuote(c) == c # Quote

\* the loop is taken a field at a time: from position i, with field
\* collected so far, up to the first comma that an even number of quotes
\* separates from a position outside quotes
RECURSIVE SplitFields(_, _, _, _)
SplitFields(line, i, field, inQuotes) ==
    LET stops == {k \in i..Len(line) :
                    /\ line[k] = Comma
                    /\ inQuotes = (Cardinality({m \in i..(k - 1) :
                                                  line[m] = Quote}) % 2 = 1)}
    IN  IF stops = {}
        THEN <<field \o SelectSeq(SubSeq(line, i, Len(line)), NotQuote)>>
        ELSE LET k == CHOOSE k \in stops : \A m \in stops : k <= m
             IN  <<field \o SelectSeq(SubSeq(line, i, k - 1), NotQuote)>>
                    \o SplitFields(line, k + 1, <<>>, FALSE)

(***************************************************************************)
(* The state of one Flight and the calls made on it.                       *)
(***************************************************************************)
\* the column letters a user types: A a D I
Letters == {65, 97, 68, 73}

\* "999A" and "999Z"
FarLabels == {<<57, 57, 57, 65>>, <<57, 57, 57, 90>>}

\* "A", "1@" and "1xA"
OddLabels == {<<65>>, <<49, 64>>, <<49, 120, 65>>}

SeatLabels ==
    {to_string(r) \o <<l>> : r \in 0..MaxLabelRow, l \in Letters}
        \cup FarLabels \cup OddLabels

VARIABLES capacity, availableSeats, seatMap, seatsPerRow, totalColumns, lastOp,
          airlineName, planeID, flightsFile, seatmapFile,
          flights, reservations, waitingLists, counters, waitinglistFiles

vars == <<capacity, availableSeats, seatMap, seatsPerRow, totalColumns, lastOp,
          airlineName, planeID, flightsFile, seatmapFile,
          flights, reservations, waitingLists, counters, waitinglistFiles>>

\* the global flights vector, reservations vector and waitingLists map, and
\* the static map generateID keeps, from a prefix to the number it gave
\* last, and the text of the files under waitinglists/; they play no part
\* where one Flight object is looked at on its own.  waitingLists is keyed
\* by flight ID: its n-th entry, and the n-th file, belong to the ID with
\* the number 10000 + n, and an empty entry stands for a missing one too
system == <<flights, reservations, waitingLists, counters, waitinglistFiles>>

\* generateID's map before its first call
NoCounters == [prefix \in {} |-> 0]

\* nothing created yet
NoSystem ==
    /\ flights = <<>> /\ reservations = <<>> /\ waitingLists = <<>>
    /\ counters = NoCounters /\ waitinglistFiles = <<>>

\* the names of the flight, and the text of flights.txt and of the flight's
\* file under seatmaps/ ("" while there is no file); no method that books,
\* cancels or queries a seat touches them
record == <<airlineName, planeID, flightsFile, seatmapFile>>

\* the last call made on the flight: its name and argument, what it
\* returned, what it reported, the cells it touched, and availableSeats
\* before it
Call(op, seatNumber, result, errors, cells, before) ==
    [op |-> op, seatNumber |-> seatNumber, result |-> result, errors |-> errors,
     cells |-> cells, before |-> before]

\* Flight::Flight(airlineName, planeID, capacity, ...)
NewFlight(cap) ==
    LET layout == calculateSeatLayout(cap)
    IN  /\ capacity = cap
        /\ availableSeats = cap
        /\ seatsPerRow = layout.seatsPerRow
        /\ totalColumns = layout.totalColumns
        /\ seatMap = initializeSeatMap(<<>>, cap, layout.seatsPerRow, layout.totalColumns)
        /\ lastOp = Call("Flight", <<>>, TRUE, <<>>, {}, cap)

\* "A" and "P1"
PlainAirlineName == <<65>>
PlainPlaneID == <<80, 49>>

\* a flight constructed and not saved yet
Init ==
    /\ \E cap \in Capacities : NewFlight(cap)
    /\ airlineName = PlainAirlineName /\ planeID = PlainPlaneID
    /\ flightsFile = <<>> /\ seatmapFile = <<>>
    /\ NoSystem

\* the values the cell read of a call can yield that the grid does not fix
UndefinedReads(seatNumber) ==
    LET indices == seatNumberToIndices(totalColumns, seatNumber)
    IN  IF /\ indices.exc = NoException
           /\ ~OutOfRange(seatMap, totalColumns, indices.row, indices.col)
           /\ ~InGrid(seatMap, indices.row, indices.col)
        THEN BOOLEAN ELSE {FALSE}

IsSeatAvailable(seatNumber) ==
    \E ub \in UndefinedReads(seatNumber) :
    \E r \in {isSeatAvailable(seatMap, totalColumns, seatNumber, ub)} :
        /\ lastOp' = Call("isSeatAvailable", seatNumber, r.result, r.errors, r.cells,
                          availableSeats)
        /\ UNCHANGED <<capacity, availableSeats, seatMap, seatsPerRow, totalColumns>>
        /\ UNCHANGED <<record, system>>

BookSeat(seatNumber) ==
    \E ub \in UndefinedReads(seatNumber) :
    \E r \in {bookSeat(seatMap, availableSeats, totalColumns, seatNumber, ub)} :
        /\ seatMap' = r.seatMap
        /\ availableSeats' = r.availableSeats
        /\ lastOp' = Call("bookSeat", seatNumber, r.result, r.errors, r.cells,
                          availableSeats)
        /\ UNCHANGED <<capacity, seatsPerRow, totalColumns>>
        /\ UNCHANGED <<record, system>>

CancelSeat(seatNumber) ==
    \E ub \in UndefinedReads(seatNumber) :
    \E r \in {cancelSeat(seatMap, availableSeats, totalColumns, seatNumber, ub)} :
        /\ seatMap' = r.seatMap
        /\ availableSeats' = r.availableSeats
        /\ lastOp' = Call("cancelSeat", seatNumber, r.result, r.errors, r.cells,
                          availableSeats)
        /\ UNCHANGED <<capacity, seatsPerRow, totalColumns>>
        /\ UNCHANGED <<record, system>>

\* the call record holds the label returned, and whether there is one
GetFirstAvailableSeat ==
    \E seat \in {getFirstAvailableSeat(seatMap, totalColumns)} :
        /\ lastOp' = Call("getFirstAvailableSeat", seat, seat # <<>>, <<>>, {},
                          availableSeats)
        /\ UNCHANGED <<capacity, availableSeats, seatMap, seatsPerRow, totalColumns>>
        /\ UNCHANGED <<record, system>>

Next ==
    \/ GetFirstAvailableSeat
    \/ \E seatNumber \in SeatLabels : IsSeatAvailable(seatNumber)
    \/ \E seatNumber \in SeatLabels : BookSeat(seatNumber)
    \/ \E seatNumber \in SeatLabels : CancelSeat(seatNumber)

Spec == Init /\ [][Next]_vars

\* the caller books the seat getFirstAvailableSeat suggests, and may cancel
\* the booking it has just made
BookFirstAvailableSeat ==
    /\ getFirstAvailableSeat(seatMap, totalColumns) # <<>>
    /\ BookSeat(getFirstAvailableSeat(seatMap, totalColumns))

CancelLastBooking ==
    /\ lastOp.op = "bookSeat" /\ lastOp.result
    /\ CancelSeat(lastOp.seatNumber)

NextFill == BookFirstAvailableSeat \/ CancelLastBooking

SpecFill == Init /\ [][NextFill]_vars

(***************************************************************************)
(* A flight whose capacity is changed after construction.                  *)
(***************************************************************************)
\* Flight::setCapacity(cap): the grid is resized in place and availableSeats
\* is left as it is
SetCapacity(cap) ==
    \E layout \in {calculateSeatLayout(cap)} :
        /\ capacity' = cap
        /\ seatsPerRow' = layout.seatsPerRow
        /\ totalColumns' = layout.totalColumns
        /\ seatMap' = initializeSeatMap(seatMap, cap, layout.seatsPerRow,
                                        layout.totalColumns)
        /\ lastOp' = Call("setCapacity", <<>>, TRUE, <<>>, {}, availableSeats)
        /\ UNCHANGED availableSeats
        /\ UNCHANGED <<record, system>>

\* "1A" and "1D"
RelayoutLabels == {<<49, 65>>, <<49, 68>>}

\* the capacities a flight is changed to: one without and one with a full
\* row in the 5-column tier, and the first of each wider tier
RelayoutCapacities == {1, 4, 60, 150}

\* the caller books only while the flight is not fully booked
NextSetCapacity ==
    \/ \E cap \in RelayoutCapacities : SetCapacity(cap)
    \/ /\ ~isFullyBooked(availableSeats)
       /\ \E seatNumber \in RelayoutLabels : BookSeat(seatNumber)

SpecSetCapacity == Init /\ [][NextSetCapacity]_vars

(***************************************************************************)
(* A flight that is saved to flights.txt and seatmaps/ and loaded again.   *)
(***************************************************************************)
\* "FL10001", the first ID generateID("FL") gives
FlightID == <<70, 76>> \o to_string(10001)

\* destination, departureTime, arrivalTime and status: they play no part in
\* the grid, and one character stands for each
OtherFields == <<<<68>>, <<84>>, <<84>>, <<83>>>>

\* Flight::saveToFile: the line handed to saveData for flights.txt
FlightLine(name, plane, cap, avail) ==
    Join(<<FlightID, name, plane, to_string(cap), to_string(avail)>> \o OtherFields,
         Comma)

\* no flight: what the flight fields hold while the flights vector is empty
NoFlight ==
    [ok |-> FALSE, airlineName |-> <<>>, planeID |-> <<>>, capacity |-> 0,
     availableSeats |-> 0, seatsPerRow |-> 3, totalColumns |-> 7, seatMap |-> <<>>]

\* loadFlights that keeps the empty grid of a flight without seat-map file
loadFlight_NoRebuild(fileContent, seatData) ==
    LET lines  == SelectSeq(getline(fileContent, Newline), NotEmpty)
        fields == SplitFields(lines[1], 1, <<>>, FALSE)
        cap    == stoi(fields[4])
        avail  == stoi(fields[5])
        layout == calculateSeatLayout(cap.val)
    IN  IF lines = <<>> THEN NoFlight
        ELSE IF Len(fields) < 9 THEN NoFlight
        ELSE IF cap.exc # "" \/ avail.exc # "" THEN NoFlight
        ELSE [ok |-> TRUE, airlineName |-> fields[2], planeID |-> fields[3],
              capacity |-> cap.val, availableSeats |-> avail.val,
              seatsPerRow |-> layout.seatsPerRow,
              totalColumns |-> layout.totalColumns,
              seatMap |-> ParseSeatData(seatData)]

\* Flight::loadFlights for a flights.txt of one line: the flight it puts in
\* the flights vector, or NoFlight when it skips the line
loadFlight(fileContent, seatData) ==
    LET lines  == SelectSeq(getline(fileContent, Newline), NotEmpty)
        fields == SplitFields(lines[1], 1, <<>>, FALSE)
        cap    == stoi(fields[4])
        avail  == stoi(fields[5])
        layout == calculateSeatLayout(cap.val)
        parsed == ParseSeatData(seatData)
    IN  IF lines = <<>> THEN NoFlight
        ELSE IF Len(fields) < 9 THEN NoFlight
        ELSE IF cap.exc # "" \/ avail.exc # "" THEN NoFlight
        ELSE [ok |-> TRUE, airlineName |-> fields[2], planeID |-> fields[3],
              capacity |-> cap.val, availableSeats |-> avail.val,
              seatsPerRow |-> layout.seatsPerRow,
              totalColumns |-> layout.totalColumns,
              seatMap |-> IF parsed = <<>>
                          THEN initializeSeatMap(<<>>, cap.val, layout.seatsPerRow,
                                                 layout.totalColumns)
                          ELSE parsed]

\* "A" and "A,B"
AirlineNames == {<<65>>, <<65, Comma, 66>>}

\* "P1" and "60"
PlaneIDs == {<<80, 49>>, <<54, 48>>}

\* "1A", "1F" and "2A"
PersistLabels == {<<49, 65>>, <<49, 70>>, <<50, 65>>}

\* the capacities of the flights saved: the small ones, and the first of
\* the 7-column tier
PersistCapacities == (1..MaxSmallCapacity) \cup {60}

\* the flights vector holds the flight
FlightExists == capacity > 0

\* Flight::saveAllFlights for the one flight, from the values it will hold
SaveAllFlights(map, avail) ==
    /\ flightsFile' = saveData(FlightLine(airlineName, planeID, capacity, avail))
    /\ seatmapFile' = saveDataOverwrite(SeatMapText(map))

\* Admin::createFlight: the flight is constructed and saved
InitPersist ==
    /\ \E cap \in PersistCapacities : NewFlight(cap)
    /\ airlineName \in AirlineNames /\ planeID \in PlaneIDs
    /\ flightsFile = saveData(FlightLine(airlineName, planeID, capacity,
                                         availableSeats))
    /\ seatmapFile = saveDataOverwrite(SeatMapText(seatMap))
    /\ NoSystem

\* Customer::bookFlight on a flight that is not fully booked, with a label
\* isSeatAvailable accepts: bookSeat, then saveAllFlights
BookSeatAndSave(seatNumber) ==
    /\ FlightExists
    /\ ~isFullyBooked(availableSeats)
    /\ \E seen \in UndefinedReads(seatNumber) :
          isSeatAvailable(seatMap, totalColumns, seatNumber, seen).result
    /\ \E ub \in UndefinedReads(seatNumber) :
       \E r \in {bookSeat(seatMap, availableSeats, totalColumns, seatNumber, ub)} :
           /\ seatMap' = r.seatMap
           /\ availableSeats' = r.availableSeats
           /\ lastOp' = Call("bookSeat", seatNumber, r.result, r.errors, r.cells,
                             availableSeats)
           /\ SaveAllFlights(r.seatMap, r.availableSeats)
           /\ UNCHANGED <<capacity, seatsPerRow, totalColumns, airlineName, planeID>>
           /\ UNCHANGED system

\* Customer::cancelBooking of the booking just made: cancelSeat, then
\* saveAllFlights
CancelSeatAndSave ==
    /\ FlightExists
    /\ lastOp.op = "bookSeat" /\ lastOp.result
    /\ \E ub \in UndefinedReads(lastOp.seatNumber) :
       \E r \in {cancelSeat(seatMap, availableSeats, totalColumns,
                            lastOp.seatNumber, ub)} :
           /\ seatMap' = r.seatMap
           /\ availableSeats' = r.availableSeats
           /\ lastOp' = Call("cancelSeat", lastOp.seatNumber, r.result, r.errors,
                             r.cells, availableSeats)
           /\ SaveAllFlights(r.seatMap, r.availableSeats)
           /\ UNCHANGED <<capacity, seatsPerRow, totalColumns, airlineName, planeID>>
           /\ UNCHANGED system

\* initializeSystem of the next run: Flight::loadFlights
LoadFlights ==
    \E flight \in {loadFlight(flightsFile, seatmapFile)} :
        /\ airlineName' = flight.airlineName
        /\ planeID' = flight.planeID
        /\ capacity' = flight.capacity
        /\ availableSeats' = flight.availableSeats
        /\ seatsPerRow' = flight.seatsPerRow
        /\ totalColumns' = flight.totalColumns
        /\ seatMap' = flight.seatMap
        /\ lastOp' = Call("loadFlights", <<>>, flight.ok, <<>>, {}, availableSeats)
        /\ UNCHANGED <<flightsFile, seatmapFile, system>>

\* the seat-map file is gone, or empty, when the program next looks for it
SeatMapFileLost ==
    /\ seatmapFile # <<>>
    /\ seatmapFile' = <<>>
    /\ lastOp' = Call("fileLost", <<>>, TRUE, <<>>, {}, availableSeats)
    /\ UNCHANGED <<capacity, availableSeats, seatMap, seatsPerRow, totalColumns,
                   airlineName, planeID, flightsFile, system>>

NextPersist ==
    \/ \E seatNumber \in PersistLabels : BookSeatAndSave(seatNumber)
    \/ CancelSeatAndSave
    \/ LoadFlights
    \/ SeatMapFileLost

SpecPersist == InitPersist /\ [][NextPersist]_vars

(***************************************************************************)
(* The flights, reservations and waiting lists behind the menus.           *)
(***************************************************************************)
MaxBookings == 2
MaxWaiting == 1

tolower(c) == IF c >= 65 /\ c <= 90 THEN c + 32 ELSE c

equalsIgnoreCase(a, b) ==
    Len(a) = Len(b) /\ \A k \in 1..Len(a) : tolower(a[k]) = tolower(b[k])

\* the prefixes "FL" and "RES" of the IDs the program generates
FL == <<70, 76>>
RES == <<82, 69, 83>>

\* generateID, seeding: the number one line of the file contributes, the
\* floor 10000 if its first comma-separated token does not start with the
\* prefix or stoi throws on what follows the prefix
IDNumber(line, prefix) ==
    LET tokens == getline(line, Comma)
        token  == IF tokens = <<>> THEN <<>> ELSE tokens[1]
        n      == stoi(SubSeq(token, Len(prefix) + 1, Len(token)))
    IN  IF Len(token) >= Len(prefix) /\ SubSeq(token, 1, Len(prefix)) = prefix
           /\ n.exc = ""
        THEN n.val ELSE 10000

\* generateID, seeding: highestID after the loop over the lines of data
highestID(data, prefix) ==
    LET lines == getline(data, Newline)
        nums  == {10000} \cup {IDNumber(lines[k], prefix) : k \in 1..Len(lines)}
    IN  CHOOSE n \in nums : \A m \in nums : m <= n

\* generateID that seeds a prefix from the first line of the file only
generateID_FirstLine(cs, prefix, data) ==
    LET lines == getline(data, Newline)
        last  == IF prefix \in DOMAIN cs THEN cs[prefix]
                 ELSE IF lines = <<>> THEN 10000 ELSE IDNumber(lines[1], prefix)
    IN  [id |-> prefix \o to_string(last + 1),
         counters |-> (prefix :> (last + 1)) @@ cs]

\* generateID(prefix) with the static map cs, data the text of the file the
\* prefix is looked up in: the ID returned and the map afterwards
generateID(cs, prefix, data) ==
    LET last == IF prefix \in DOMAIN cs THEN cs[prefix] ELSE highestID(data, prefix)
    IN  [id |-> prefix \o to_string(last + 1),
         counters |-> (prefix :> (last + 1)) @@ cs]

\* the capacities of the two flights the admin creates
MenuCapacities == <<1, 2>>

\* "1A", "1a" and "1B"
MenuLabels == {<<49, 65>>, <<49, 97>>, <<49, 66>>}

\* "ana" and "ben"
Ana == <<97, 110, 97>>
Ben == <<98, 101, 110>>
Usernames == {Ana, Ben}

\* the Flight object createFlight puts in flights: the n-th of the run
CreatedFlight(n, cap) ==
    LET layout == calculateSeatLayout(cap)
    IN  [flightID |-> FL \o to_string(10000 + n),
         capacity |-> cap,
         availableSeats |-> cap,
         seatsPerRow |-> layout.seatsPerRow,
         totalColumns |-> layout.totalColumns,
         seatMap |-> initializeSeatMap(<<>>, cap, layout.seatsPerRow,
                                       layout.totalColumns)]

\* Reservation::Reservation, reservationID what generateID("RES") returned
NewReservation(reservationID, flightID, seatNumber, username) ==
    [reservationID |-> reservationID,
     flightID |-> flightID, seatNumber |-> seatNumber, username |-> username]

\* what generateID reads of reservations.txt as saveAllReservations and
\* Reservation::saveToFile leave it: of each line the reservation ID and the
\* comma that ends it
RECURSIVE ReservationsText(_)
ReservationsText(rs) ==
    IF rs = <<>> THEN <<>>
    ELSE Head(rs).reservationID \o <<Comma, Newline>> \o ReservationsText(Tail(rs))

\* the reservations created in this run, none being on file when it began
BookingsSoFar == IF RES \in DOMAIN counters THEN counters[RES] - 10000 ELSE 0

\* the least index among hits, 0 if there is none: where a loop or find_if
\* over a vector stops
FirstIndex(hits) ==
    IF hits = {} THEN 0 ELSE CHOOSE k \in hits : \A m \in hits : k <= m

\* vector::erase of the element at index k, seq itself if k = 0
erase(seq, k) ==
    IF k = 0 THEN seq ELSE SubSeq(seq, 1, k - 1) \o SubSeq(seq, k + 1, Len(seq))

\* WaitingList::removePassenger
removePassenger(passengers, username) ==
    erase(passengers,
          FirstIndex({k \in 1..Len(passengers) : passengers[k] = username}))

\* the passenger name kept beside each username: one character stands for it
PassengerName == <<78>>

\* WaitingList::saveToFile: the text handed to saveData, a line per passenger
RECURSIVE WaitingListText(_)
WaitingListText(passengers) ==
    IF passengers = <<>> THEN <<>>
    ELSE Head(passengers) \o <<Comma>> \o PassengerName \o <<Newline>>
            \o WaitingListText(Tail(passengers))

\* WaitingList::saveToFile: the file afterwards, "" for none: an empty list
\* deletes the file, any other is written to the truncated file by saveData
WaitingListFile(passengers) == saveData(WaitingListText(passengers))

\* getNextPassenger that returns the entry added last
getNextPassenger_Back(passengers) ==
    IF passengers = <<>> THEN <<>> ELSE passengers[Len(passengers)]

\* WaitingList::getNextPassenger: the username of the front entry, "" for
\* the empty pair
getNextPassenger(passengers) ==
    IF passengers = <<>> THEN <<>> ELSE Head(passengers)

\* the last menu operation carried out, and what its bookSeat or cancelSeat
\* call returned (TRUE if it makes none)
MenuCall(op, result) == [op |-> op, result |-> result]

\* a promotion asked for the f-th flight: what its bookSeat call returned
\* (FALSE if it makes none) and the exception that ended it, if any
PromoteCall(f, result, exc) ==
    [op |-> "promote", flight |-> f, result |-> result, error |-> exc]

\* two flights created by the admin, nobody booked yet
InitMenu ==
    /\ flights = <<CreatedFlight(1, MenuCapacities[1]),
                   CreatedFlight(2, MenuCapacities[2])>>
    /\ reservations = <<>>
    /\ waitingLists = <<<<>>, <<>>>> /\ waitinglistFiles = <<<<>>, <<>>>>
    /\ counters = (FL :> 10002)
    /\ lastOp = MenuCall("createFlight", TRUE)
    /\ capacity = NoFlight.capacity /\ availableSeats = NoFlight.availableSeats
    /\ seatsPerRow = NoFlight.seatsPerRow /\ totalColumns = NoFlight.totalColumns
    /\ seatMap = NoFlight.seatMap
    /\ airlineName = <<>> /\ planeID = <<>>
    /\ flightsFile = <<>> /\ seatmapFile = <<>>

\* the fields of the lone Flight object, unused behind the menus
single == <<capacity, availableSeats, seatMap, seatsPerRow, totalColumns,
            airlineName, planeID, flightsFile, seatmapFile>>

\* flights once bookSeat or cancelSeat on the f-th flight has returned r
FlightsWith(f, r) ==
    [flights EXCEPT ![f].seatMap = r.seatMap,
                    ![f].availableSeats = r.availableSeats]

\* flights[f].bookSeat(seatNumber)
bookSeatOn(f, seatNumber) ==
    bookSeat(flights[f].seatMap, flights[f].availableSeats,
             flights[f].totalColumns, seatNumber, FALSE)

\* FlightsAfterCancelSeat that frees the seat on the first flight of the list
FlightsAfterCancelSeat_FirstFlight(flightID, seatNumber) ==
    FlightsWith(1, cancelSeat(flights[1].seatMap, flights[1].availableSeats,
                              flights[1].totalColumns, seatNumber, FALSE))

\* flights with cancelSeat(seatNumber) called on the first flight whose ID is
\* flightID, letter case aside
FlightsAfterCancelSeat(flightID, seatNumber) ==
    LET f == FirstIndex({k \in 1..Len(flights) :
                            equalsIgnoreCase(flights[k].flightID, flightID)})
    IN  IF f = 0 THEN flights
        ELSE FlightsWith(f, cancelSeat(flights[f].seatMap,
                                       flights[f].availableSeats,
                                       flights[f].totalColumns, seatNumber, FALSE))

\* reservations without the first one whose ID is reservationID
ReservationsWithout(reservationID) ==
    erase(reservations,
          FirstIndex({k \in 1..Len(reservations) :
                        equalsIgnoreCase(reservations[k].reservationID,
                                         reservationID)}))

\* a seat prompt that takes any label
SeatAccepted_AnyLabel(f, seatNumber) == seatNumber # <<>>

\* a seat prompt that takes every label that decodes, occupied or not
SeatAccepted_NoOccupancyTest(f, seatNumber) ==
    /\ seatNumber # <<>>
    /\ seatNumberToIndices(flights[f].totalColumns, seatNumber).exc = NoException

\* the seat prompt of bookFlight and of the promotion: it is repeated until
\* the label typed is not empty and isSeatAvailable accepts it
SeatAccepted(f, seatNumber) ==
    /\ seatNumber # <<>>
    /\ isSeatAvailable(flights[f].seatMap, flights[f].totalColumns, seatNumber,
                       FALSE).result

\* Customer::bookFlight, paid
BookFlight(username, f, seatNumber) ==
    /\ ~isFullyBooked(flights[f].availableSeats)
    /\ SeatAccepted(f, seatNumber)
    /\ BookingsSoFar < MaxBookings
    /\ \E r \in {bookSeatOn(f, seatNumber)} :
          /\ flights' = FlightsWith(f, r)
          /\ lastOp' = MenuCall("bookFlight", r.result)
    /\ \E g \in {generateID(counters, RES, ReservationsText(reservations))} :
          /\ counters' = g.counters
          /\ reservations' = Append(reservations,
                                    NewReservation(g.id, flights[f].flightID,
                                                   seatNumber, username))
    /\ UNCHANGED <<waitingLists, waitinglistFiles, single>>

\* Customer::bookFlight on a fully booked flight, the waiting list accepted
JoinWaitingList(username, f) ==
    /\ isFullyBooked(flights[f].availableSeats)
    /\ waitingLists' = [waitingLists EXCEPT ![f] = Append(@, username)]
    /\ waitinglistFiles' = [waitinglistFiles EXCEPT
                              ![f] = WaitingListFile(Append(waitingLists[f], username))]
    /\ lastOp' = MenuCall("joinWaitingList", TRUE)
    /\ UNCHANGED <<flights, reservations, counters, single>>

\* Admin::manageWaitingList, promotion confirmed
PromotePassenger(f, seatNumber) ==
    /\ waitingLists[f] # <<>>
    /\ ~isFullyBooked(flights[f].availableSeats)
    /\ SeatAccepted(f, seatNumber)
    /\ BookingsSoFar < MaxBookings
    /\ \E r \in {bookSeatOn(f, seatNumber)} :
          /\ flights' = FlightsWith(f, r)
          /\ lastOp' = PromoteCall(f, r.result, NoException)
    /\ \E g \in {generateID(counters, RES, ReservationsText(reservations))} :
          /\ counters' = g.counters
          /\ reservations' = Append(reservations,
                                    NewReservation(g.id, flights[f].flightID,
                                                   seatNumber,
                                                   getNextPassenger(waitingLists[f])))
    /\ waitingLists' = [waitingLists EXCEPT
                          ![f] = removePassenger(@, getNextPassenger(waitingLists[f]))]
    /\ waitinglistFiles' = [waitinglistFiles EXCEPT
          ![f] = WaitingListFile(removePassenger(waitingLists[f],
                                                 getNextPassenger(waitingLists[f])))]
    /\ UNCHANGED single

\* a refused promotion that drops the head of the waiting list all the same
PromoteRefused_DropsPassenger(f) ==
    /\ waitingLists[f] # <<>>
    /\ isFullyBooked(flights[f].availableSeats)
    /\ waitingLists' = [waitingLists EXCEPT ![f] = Tail(@)]
    /\ lastOp' = PromoteCall(f, FALSE,
                    BookingException("Flight is fully booked. Cannot promote passenger."))
    /\ UNCHANGED <<flights, reservations, counters, waitinglistFiles, single>>

\* Admin::manageWaitingList, "Promote passenger" chosen on a fully booked
\* flight: the BookingException leaves the switch before anything is asked
PromoteRefused(f) ==
    /\ waitingLists[f] # <<>>
    /\ isFullyBooked(flights[f].availableSeats)
    /\ lastOp' = PromoteCall(f, FALSE,
                    BookingException("Flight is fully booked. Cannot promote passenger."))
    /\ UNCHANGED <<flights, reservations, waitingLists, counters,
                   waitinglistFiles, single>>

\* Customer::cancelBooking, confirmed, of the k-th reservation in the list
\* (the customer picks among their own)
CancelBooking(k) ==
    /\ k \in 1..Len(reservations)
    /\ flights' = FlightsAfterCancelSeat(reservations[k].flightID,
                                         reservations[k].seatNumber)
    /\ reservations' = ReservationsWithout(reservations[k].reservationID)
    /\ lastOp' = MenuCall("cancelBooking", TRUE)
    /\ UNCHANGED <<waitingLists, counters, waitinglistFiles, single>>

\* Admin::manageReservations, deletion confirmed, of the k-th reservation
DeleteReservation(k) ==
    /\ k \in 1..Len(reservations)
    /\ flights' = FlightsAfterCancelSeat(reservations[k].flightID,
                                         reservations[k].seatNumber)
    /\ reservations' = ReservationsWithout(reservations[k].reservationID)
    /\ lastOp' = MenuCall("deleteReservation", TRUE)
    /\ UNCHANGED <<waitingLists, counters, waitinglistFiles, single>>

\* the reservations whose username is not the given one, in their order
RECURSIVE ReservationsNotOf(_, _)
ReservationsNotOf(rs, username) ==
    IF rs = <<>> THEN <<>>
    ELSE (IF Head(rs).username = username THEN <<>> ELSE <<Head(rs)>>)
            \o ReservationsNotOf(Tail(rs), username)

\* Admin::manageUserAccounts, deletion of a customer account confirmed.  The
\* username is free again afterwards and signUp can register it anew.
DeleteUser(username) ==
    /\ reservations' = ReservationsNotOf(reservations, username)
    /\ waitingLists' = [f \in 1..Len(waitingLists) |->
                            removePassenger(waitingLists[f], username)]
    /\ waitinglistFiles' = [f \in 1..Len(waitingLists) |->
          WaitingListFile(removePassenger(waitingLists[f], username))]
    /\ lastOp' = MenuCall("deleteUser", TRUE)
    /\ UNCHANGED <<flights, counters, single>>

NextMenu ==
    \/ \E username \in Usernames, f \in 1..Len(flights), seatNumber \in MenuLabels :
          BookFlight(username, f, seatNumber)
    \/ \E username \in Usernames, f \in 1..Len(flights) :
          Len(waitingLists[f]) < MaxWaiting /\ JoinWaitingList(username, f)
    \/ \E f \in 1..Len(flights), seatNumber \in MenuLabels :
          PromotePassenger(f, seatNumber)
    \/ \E f \in 1..Len(flights) : PromoteRefused(f)
    \/ \E k \in 1..MaxBookings : CancelBooking(k)
    \/ \E k \in 1..MaxBookings : DeleteReservation(k)
    \/ \E username \in Usernames : DeleteUser(username)

SpecMenu == InitMenu /\ [][NextMenu]_vars

(***************************************************************************)
(* The waiting list of one fully bookable flight.                          *)
(***************************************************************************)
MaxQueue == 2

\* one flight of capacity 1 created by the admin, nobody booked yet
InitWaitingList ==
    /\ flights = <<CreatedFlight(1, 1)>>
    /\ reservations = <<>>
    /\ waitingLists = <<<<>>>> /\ waitinglistFiles = <<<<>>>>
    /\ counters = (FL :> 10001)
    /\ lastOp = MenuCall("createFlight", TRUE)
    /\ capacity = NoFlight.capacity /\ availableSeats = NoFlight.availableSeats
    /\ seatsPerRow = NoFlight.seatsPerRow /\ totalColumns = NoFlight.totalColumns
    /\ seatMap = NoFlight.seatMap
    /\ airlineName = <<>> /\ planeID = <<>>
    /\ flightsFile = <<>> /\ seatmapFile = <<>>

\* Admin::manageWaitingList, "Delete passenger" confirmed: the result is
\* what removePassenger returned
DeletePassenger(f, username) ==
    /\ waitingLists[f] # <<>>
    /\ waitingLists' = [waitingLists EXCEPT ![f] = removePassenger(@, username)]
    /\ waitinglistFiles' =
          IF \E k \in 1..Len(waitingLists[f]) : waitingLists[f][k] = username
          THEN [waitinglistFiles EXCEPT
                  ![f] = WaitingListFile(removePassenger(waitingLists[f], username))]
          ELSE waitinglistFiles
    /\ lastOp' = MenuCall("deletePassenger",
                          \E k \in 1..Len(waitingLists[f]) :
                              waitingLists[f][k] = username)
    /\ UNCHANGED <<flights, reservations, counters, single>>

\* the reservations whose flight ID is not the given one, compared as
\* deleteFlight compares them, in their order
RECURSIVE ReservationsNotOn(_, _)
ReservationsNotOn(rs, flightID) ==
    IF rs = <<>> THEN <<>>
    ELSE (IF equalsIgnoreCase(Head(rs).flightID, flightID) THEN <<>>
          ELSE <<Head(rs)>>)
            \o ReservationsNotOn(Tail(rs), flightID)

\* Admin::deleteFlight, deletion of the f-th flight confirmed: the
\* reservations on it are removed, its waiting list is saved and the file
\* deleted, the flight is erased, and saveAllWaitingLists then saves every
\* entry of the map again, the erased flight's included: no statement erases
\* an entry of waitingLists.  Taken where positions in flights and ID
\* numbers agree
DeleteFlight(f) ==
    /\ f \in 1..Len(flights)
    /\ reservations' = ReservationsNotOn(reservations, flights[f].flightID)
    /\ flights' = [k \in 1..(Len(flights) - 1) |->
                      IF k < f THEN flights[k] ELSE flights[k + 1]]
    /\ waitinglistFiles' = [n \in 1..Len(waitingLists) |->
                              WaitingListFile(waitingLists[n])]
    /\ lastOp' = MenuCall("deleteFlight", TRUE)
    /\ UNCHANGED <<waitingLists, counters, single>>

NextWaitingList ==
    \/ \E f \in 1..Len(flights) : DeleteFlight(f)
    \/ \E username \in Usernames, f \in 1..Len(flights), seatNumber \in MenuLabels :
          BookFlight(username, f, seatNumber)
    \/ \E username \in Usernames, f \in 1..Len(flights) :
          Len(waitingLists[f]) < MaxQueue /\ JoinWaitingList(username, f)
    \/ \E f \in 1..Len(flights), seatNumber \in MenuLabels :
          PromotePassenger(f, seatNumber)
    \/ \E f \in 1..Len(flights) : PromoteRefused(f)
    \/ \E f \in 1..Len(flights), username \in Usernames : DeletePassenger(f, username)
    \/ \E k \in 1..MaxBookings : CancelBooking(k)

SpecWaitingList == InitWaitingList /\ [][NextWaitingList]_vars

(***************************************************************************)
(* generateID over the files an earlier run left.                          *)
(***************************************************************************)
MaxIDs == 3

\* the line of flights.txt for a flight with this ID
PersistedFlightLine(flightID) ==
    Join(<<flightID, PlainAirlineName, PlainPlaneID, to_string(1), to_string(1)>>
            \o OtherFields, Comma) \o <<Newline>>

\* flights.txt as earlier runs can leave it: every flight got the highest
\* number on file plus one, so the numbers rise down the file, with gaps
\* where flights were deleted
PersistedFlightNumbers ==
    {<<>>, <<10001>>, <<10003>>, <<10001, 10002>>, <<10002, 10004>>}

\* reservations.txt as earlier runs can leave it, likewise
PersistedReservationNumbers == {<<>>, <<10002>>, <<10001, 10005>>}

RECURSIVE FlightsText(_)
FlightsText(numbers) ==
    IF numbers = <<>> THEN <<>>
    ELSE PersistedFlightLine(FL \o to_string(Head(numbers)))
            \o FlightsText(Tail(numbers))

\* the reservations loadReservations builds from such a file
RECURSIVE LoadedReservations(_)
LoadedReservations(numbers) ==
    IF numbers = <<>> THEN <<>>
    ELSE <<NewReservation(RES \o to_string(Head(numbers)), FL \o to_string(10001),
                          <<49, 65>>, Ana)>>
            \o LoadedReservations(Tail(numbers))

\* the IDs a file holds: the first comma-separated token of each line
IDsOnFile(data) ==
    {getline(line, Comma)[1] :
        line \in {l \in {getline(data, Newline)[k] :
                            k \in 1..Len(getline(data, Newline))} : l # <<>>}}

\* the generateID calls of the run so far: the last prefix asked for and ID
\* returned, every ID returned, and the IDs that were on the file of a
\* prefix when generateID read it
IDCall(prefix, id, issued, onFile) ==
    [op |-> "generateID", prefix |-> prefix, id |-> id, issued |-> issued,
     onFile |-> onFile]

\* a run starts: the lists are loaded, generateID has not been called
InitGenerateID ==
    /\ \E numbers \in PersistedFlightNumbers : flightsFile = FlightsText(numbers)
    /\ \E numbers \in PersistedReservationNumbers :
          reservations = LoadedReservations(numbers)
    /\ counters = NoCounters
    /\ lastOp = IDCall(<<>>, <<>>, {}, {})
    /\ flights = <<>> /\ waitingLists = <<>> /\ waitinglistFiles = <<>>
    /\ capacity = NoFlight.capacity /\ availableSeats = NoFlight.availableSeats
    /\ seatsPerRow = NoFlight.seatsPerRow /\ totalColumns = NoFlight.totalColumns
    /\ seatMap = NoFlight.seatMap
    /\ airlineName = <<>> /\ planeID = <<>> /\ seatmapFile = <<>>

\* Flight::Flight in Admin::createFlight: the ID is generated and the
\* flight's line is appended to flights.txt
NewFlightID ==
    /\ Cardinality(lastOp.issued) < MaxIDs
    /\ \E g \in {generateID(counters, FL, flightsFile)} :
          /\ counters' = g.counters
          /\ flightsFile' = flightsFile \o PersistedFlightLine(g.id)
          /\ lastOp' = IDCall(FL, g.id, lastOp.issued \cup {g.id},
                              IF FL \in DOMAIN counters THEN lastOp.onFile
                              ELSE lastOp.onFile \cup IDsOnFile(flightsFile))
    /\ UNCHANGED <<flights, reservations, waitingLists, waitinglistFiles,
                   capacity, availableSeats,
                   seatMap, seatsPerRow, totalColumns, airlineName, planeID,
                   seatmapFile>>

\* Reservation::Reservation in a booking or a promotion: the ID is generated
\* and the reservation joins the list and reservations.txt
NewReservationID ==
    /\ Cardinality(lastOp.issued) < MaxIDs
    /\ \E g \in {generateID(counters, RES, ReservationsText(reservations))} :
          /\ counters' = g.counters
          /\ reservations' = Append(reservations,
                                    NewReservation(g.id, FL \o to_string(10001),
                                                   <<49, 65>>, Ana))
          /\ lastOp' = IDCall(RES, g.id, lastOp.issued \cup {g.id},
                              IF RES \in DOMAIN counters THEN lastOp.onFile
                              ELSE lastOp.onFile
                                     \cup IDsOnFile(ReservationsText(reservations)))
    /\ UNCHANGED <<flights, waitingLists, waitinglistFiles, single>>

NextGenerateID == NewFlightID \/ NewReservationID

SpecGenerateID == InitGenerateID /\ [][NextGenerateID]_vars

(***************************************************************************)
(* The record of a flight in flights.txt, saved and loaded again.          *)
(***************************************************************************)
\* "May 10, 2025 - 08:00 AM", "May 10, 2025 - 09:30 AM" and
\* "May 10, 2025 - 10:00 AM"
EightAM == <<77, 97, 121, 32, 49, 48, 44, 32, 50, 48, 50, 53, 32, 45, 32,
             48, 56, 58, 48, 48, 32, 65, 77>>
HalfPastNineAM == <<77, 97, 121, 32, 49, 48, 44, 32, 50, 48, 50, 53, 32, 45, 32,
                    48, 57, 58, 51, 48, 32, 65, 77>>
TenAM == <<77, 97, 121, 32, 49, 48, 44, 32, 50, 48, 50, 53, 32, 45, 32,
           49, 48, 58, 48, 48, 32, 65, 77>>

\* " - ", "May 10, 2025" and "may 10"
SpaceDashSpace == <<32, 45, 32>>
May10_2025 == <<77, 97, 121, 32, 49, 48, 44, 32, 50, 48, 50, 53>>
may10 == <<109, 97, 121, 32, 49, 48>>

\* "On Time" and "Delayed"
OnTime == <<79, 110, 32, 84, 105, 109, 101>>
Delayed == <<68, 101, 108, 97, 121, 101, 100>>

\* s.find(sub) != string::npos
Found(s, sub) ==
    \E k \in 1..(Len(s) - Len(sub) + 1) : SubSeq(s, k, k + Len(sub) - 1) = sub

\* what the admin types at the prompts of createFlight and of the edit in
\* manageFlightStatus: the departure times are the example the prompt shows,
\* "08:00" and "T - 8", the arrival times the example the prompt shows and
\* "09:30", the destination is "D"
RecordCapacities == {2, 60}
Destinations == {<<68>>}
DepartureTimes == {EightAM, <<48, 56, 58, 48, 48>>, <<84, 32, 45, 32, 56>>}
ArrivalTimes == {HalfPastNineAM, <<48, 57, 58, 51, 48>>}
Statuses == {OnTime, Delayed, may10}

\* Flight::Flight, the first of the run, with the fields that are persisted
EnteredFlight(name, plane, cap, dest, departure, arrival) ==
    [flightID |-> FlightID, airlineName |-> name, planeID |-> plane,
     capacity |-> cap, availableSeats |-> cap, destination |-> dest,
     departureTime |-> departure, arrivalTime |-> arrival, status |-> OnTime]

\* Flight::saveToFile: the line handed to saveData for flights.txt
RecordLine(flight) ==
    Join(<<flight.flightID, flight.airlineName, flight.planeID,
           to_string(flight.capacity), to_string(flight.availableSeats),
           flight.destination, flight.departureTime, flight.arrivalTime,
           flight.status>>, Comma)

\* Flight::saveAllFlights: flights.txt once truncated and every flight saved
RECURSIVE FlightsFileText(_)
FlightsFileText(fs) ==
    IF fs = <<>> THEN <<>>
    ELSE saveData(RecordLine(Head(fs))) \o FlightsFileText(Tail(fs))

\* Flight::loadFlights on one line that is not empty: the flights it adds,
\* none when the line has fewer than nine fields or stoi throws
LoadedRecord(line) ==
    LET fields == SplitFields(line, 1, <<>>, FALSE)
        cap    == stoi(fields[4])
        avail  == stoi(fields[5])
    IN  IF Len(fields) < 9 THEN <<>>
        ELSE IF cap.exc # "" \/ avail.exc # "" THEN <<>>
        ELSE <<[flightID |-> fields[1], airlineName |-> fields[2],
                planeID |-> fields[3],
                capacity |-> cap.val, availableSeats |-> avail.val,
                destination |-> fields[6],
                departureTime |-> IF Found(fields[7], SpaceDashSpace)
                                  THEN fields[7] ELSE EightAM,
                arrivalTime |-> IF Found(fields[8], May10_2025)
                                THEN fields[8] ELSE TenAM,
                status |-> IF fields[9] = may10 THEN OnTime ELSE fields[9]]>>

\* Flight::loadFlights: the flights vector it leaves, from the text of
\* flights.txt
RECURSIVE LoadedRecords(_)
LoadedRecords(lines) ==
    IF lines = <<>> THEN <<>>
    ELSE (IF Head(lines) = <<>> THEN <<>> ELSE LoadedRecord(Head(lines)))
            \o LoadedRecords(Tail(lines))

\* Admin::createFlight confirmed: the flight is constructed and saved.  The
\* seat grid, the reservations and the waiting lists play no part in the
\* record and are left out
InitFlightRecord ==
    /\ \E name \in AirlineNames, plane \in PlaneIDs, cap \in RecordCapacities,
          dest \in Destinations, departure \in DepartureTimes,
          arrival \in ArrivalTimes :
            flights = <<EnteredFlight(name, plane, cap, dest, departure, arrival)>>
    /\ flightsFile = FlightsFileText(flights)
    /\ lastOp = MenuCall("createFlight", TRUE)
    /\ reservations = <<>> /\ waitingLists = <<>> /\ waitinglistFiles = <<>>
    /\ counters = NoCounters
    /\ capacity = NoFlight.capacity /\ availableSeats = NoFlight.availableSeats
    /\ seatsPerRow = NoFlight.seatsPerRow /\ totalColumns = NoFlight.totalColumns
    /\ seatMap = NoFlight.seatMap
    /\ airlineName = <<>> /\ planeID = <<>> /\ seatmapFile = <<>>

\* Admin::manageFlightStatus, edit of the f-th flight confirmed: the four
\* fields are set and all flights are saved
EditFlight(f, airline, departure, arrival, stat) ==
    /\ f \in 1..Len(flights)
    /\ flights' = [flights EXCEPT ![f] =
                      [@ EXCEPT !.airlineName = airline,
                                !.departureTime = departure,
                                !.arrivalTime = arrival,
                                !.status = stat]]
    /\ flightsFile' = FlightsFileText(flights')
    /\ lastOp' = MenuCall("editFlight", TRUE)
    /\ UNCHANGED <<reservations, waitingLists, waitinglistFiles, counters,
                   capacity, availableSeats, seatMap, seatsPerRow, totalColumns,
                   airlineName, planeID, seatmapFile>>

\* initializeSystem of the next run: Flight::loadFlights
LoadFlightRecords ==
    /\ flights' = LoadedRecords(getline(flightsFile, Newline))
    /\ lastOp' = MenuCall("loadFlights", TRUE)
    /\ UNCHANGED <<flightsFile, reservations, waitingLists, waitinglistFiles,
                   counters, capacity, availableSeats, seatMap, seatsPerRow,
                   totalColumns, airlineName, planeID, seatmapFile>>

NextFlightRecord ==
    \/ \E f \in 1..Len(flights), airline \in AirlineNames,
          departure \in DepartureTimes, arrival \in ArrivalTimes,
          stat \in Statuses :
            EditFlight(f, airline, departure, arrival, stat)
    \/ LoadFlightRecords

SpecFlightRecord == InitFlightRecord /\ [][NextFlightRecord]_vars

(***************************************************************************)
(* Properties.                                                             *)
(***************************************************************************)
\* the cells of the grid, 0-based
Cells ==
    UNION {{<<i, j>> : j \in 0..(Len(seatMap[i + 1]) - 1)} : i \in 0..(Len(seatMap) - 1)}

SeatCells == {ij \in Cells : ~IsAisle(totalColumns, ij[2])}

\* a cell of the grid outside the aisle columns
IsSeatCell(ij) ==
    InGrid(seatMap, ij[1], ij[2]) /\ ~IsAisle(totalColumns, ij[2])

Occupied(ij) == seatMap[ij[1] + 1][ij[2] + 1]

\* the real seats of the flight: the cells outside the aisle columns that the
\* constructor leaves available
RealSeats ==
    UNION {{ij \in SeatCells : ~fresh[ij[1] + 1][ij[2] + 1]} :
            fresh \in {initializeSeatMap(<<>>, capacity, seatsPerRow, totalColumns)}}

\* two labels that differ at most in letter case
SameSeat(a, b) ==
    Len(a) = Len(b) /\ \A k \in 1..Len(a) : toupper(a[k]) = toupper(b[k])

Label_0A == <<48, 65>>
Label_1a == <<49, 97>>
Label_1D == <<49, 68>>
Label_1I == <<49, 73>>
Label_999Z == <<57, 57, 57, 90>>

\* C1: availableSeats equals the number of real seats (cells outside the
\* aisle columns that are seats of the plane) that are currently unoccupied,
\* in every state reachable by bookSeat and cancelSeat calls.
C1_AvailableSeatsCountsFreeSeats ==
    availableSeats = Cardinality({ij \in RealSeats : ~Occupied(ij)})

\* C2: right after construction (calculateSeatLayout, then initializeSeatMap
\* on an empty grid) the number of cells outside the aisle columns that are
\* flagged available equals capacity.
C2_SeatCountConservation ==
    lastOp.op = "Flight" => CountAvailable(seatMap, totalColumns) = capacity

\* C3: bookSeat on a free seat succeeds, flags exactly that cell occupied and
\* decrements availableSeats by one; a bookSeat that names the seat of the
\* successful bookSeat before it, in either letter case, fails and changes
\* nothing; a bookSeat that succeeds found its cell free.
C3_BookSeatOnce ==
    [][lastOp'.op = "bookSeat" =>
        \A idx \in {seatNumberToIndices(totalColumns, lastOp'.seatNumber)} :
        LET cell == <<idx.row, idx.col>>
        IN  /\ (idx.exc = NoException /\ IsSeatCell(cell) /\ ~Occupied(cell)) =>
                  /\ lastOp'.result
                  /\ seatMap' = [seatMap EXCEPT ![idx.row + 1][idx.col + 1] = TRUE]
                  /\ availableSeats' = availableSeats - 1
            /\ (/\ lastOp.op = "bookSeat" /\ lastOp.result
                /\ SameSeat(lastOp.seatNumber, lastOp'.seatNumber)) =>
                  /\ ~lastOp'.result
                  /\ seatMap' = seatMap
                  /\ availableSeats' = availableSeats
            /\ lastOp'.result =>
                  idx.exc = NoException /\ IsSeatCell(cell) /\ ~Occupied(cell)
    ]_vars

\* a bookSeat("1a") refused right after bookSeat("1A") took the seat
C3_Witness ==
    /\ lastOp.op = "bookSeat" /\ lastOp.seatNumber = Label_1a /\ ~lastOp.result
    /\ lastOp.cells = {<<0, 0>>}
    /\ Occupied(<<0, 0>>)
    /\ availableSeats = capacity - 1

\* C4: cancelSeat of the seat the successful bookSeat before it took
\* succeeds, flags the cell available and restores availableSeats to its
\* value before the booking; cancelSeat of the seat the successful
\* cancelSeat before it freed fails and changes nothing.
C4_CancelRestores ==
    [][lastOp'.op = "cancelSeat" =>
        \A idx \in {seatNumberToIndices(totalColumns, lastOp'.seatNumber)} :
            /\ (/\ lastOp.op = "bookSeat" /\ lastOp.result
                /\ SameSeat(lastOp.seatNumber, lastOp'.seatNumber)) =>
                  /\ lastOp'.result
                  /\ Occupied(<<idx.row, idx.col>>)
                  /\ seatMap' = [seatMap EXCEPT ![idx.row + 1][idx.col + 1] = FALSE]
                  /\ availableSeats' = lastOp.before
            /\ (/\ lastOp.op = "cancelSeat" /\ lastOp.result
                /\ SameSeat(lastOp.seatNumber, lastOp'.seatNumber)) =>
                  /\ ~lastOp'.result
                  /\ lastOp'.errors = <<BookingException("is already available")>>
                  /\ seatMap' = seatMap
                  /\ availableSeats' = availableSeats
    ]_vars

\* a cancelSeat that gave back the only seat booked so far
C4_Witness ==
    /\ lastOp.op = "cancelSeat" /\ lastOp.result
    /\ lastOp.before = capacity - 1
    /\ availableSeats = capacity
    /\ \A ij \in RealSeats : ~Occupied(ij)

\* C5: isFullyBooked() is true exactly when every real seat is booked: it
\* becomes true with the booking of the last real seat, is false before, and
\* is false again once a booked seat is cancelled.
C5_FullWhenAllSeatsBooked ==
    isFullyBooked(availableSeats) <=> \A ij \in RealSeats : Occupied(ij)

\* C6 as claimed: in the 7-column tier isSeatAvailable("1D") is refused as an
\* aisle, and in the 11-column tier the labels of letter indices 3 and 8 are.
C6_AisleLabelsRejected ==
    (/\ lastOp.op = "isSeatAvailable"
     /\ \/ totalColumns = 7 /\ lastOp.seatNumber = Label_1D
        \/ totalColumns = 11 /\ lastOp.seatNumber \in {Label_1D, Label_1I}) =>
        /\ ~lastOp.result
        /\ lastOp.errors = <<ValidationException("Cannot book an aisle")>>

\* C6 as amended: no label addresses an aisle column, so isSeatAvailable
\* never refuses a label as an aisle; "1D" addresses column index 4, the
\* first seat past the aisle, in the 7-column and 11-column tiers, and "1I"
\* column index 10 in the 11-column tier, and the call answers whether that
\* seat is free.
C6_NoLabelAddressesAisle ==
    lastOp.op = "isSeatAvailable" =>
        /\ \A k \in 1..Len(lastOp.errors) :
              lastOp.errors[k].what # "Cannot book an aisle"
        /\ \A ij \in lastOp.cells : ~IsAisle(totalColumns, ij[2])
        /\ (totalColumns \in {7, 11} /\ lastOp.seatNumber = Label_1D) =>
              /\ lastOp.errors = <<>>
              /\ lastOp.cells = {<<0, 4>>}
              /\ lastOp.result = ~Occupied(<<0, 4>>)
        /\ (totalColumns = 11 /\ lastOp.seatNumber = Label_1I) =>
              /\ lastOp.errors = <<>>
              /\ lastOp.cells = {<<0, 10>>}
              /\ lastOp.result = ~Occupied(<<0, 10>>)

\* isSeatAvailable("1D") answered true on a flight of the 7-column tier
C6_Witness ==
    /\ lastOp.op = "isSeatAvailable" /\ lastOp.seatNumber = Label_1D
    /\ totalColumns = 7
    /\ lastOp.result

\* C7: seatNumberToIndices accepts "0A" (row index -1) and "999Z"; a call of
\* isSeatAvailable, bookSeat or cancelSeat whose label decodes to a negative
\* row, a row past the last one or a column >= totalColumns fails, reports
\* the out-of-range validation error first, touches no cell and changes
\* nothing; no call touches a cell outside the grid.
C7_OutOfRangeRejected ==
    [][lastOp'.op \in {"isSeatAvailable", "bookSeat", "cancelSeat"} =>
        \A idx \in {seatNumberToIndices(totalColumns, lastOp'.seatNumber)} :
            /\ lastOp'.seatNumber = Label_0A =>
                  idx = [exc |-> NoException, row |-> -1, col |-> 0]
            /\ lastOp'.seatNumber = Label_999Z =>
                  idx.exc = NoException /\ idx.row = 998 /\ idx.col >= totalColumns
            /\ (/\ idx.exc = NoException
                /\ (idx.row < 0 \/ idx.row >= Len(seatMap) \/ idx.col >= totalColumns)) =>
                  /\ ~lastOp'.result
                  /\ lastOp'.errors # <<>>
                  /\ lastOp'.errors[1] = ValidationException("Seat number out of range")
                  /\ lastOp'.cells = {}
                  /\ seatMap' = seatMap
                  /\ availableSeats' = availableSeats
            /\ \A ij \in lastOp'.cells : InGrid(seatMap, ij[1], ij[2])
    ]_vars

\* bookSeat("0A") refused
C7_Witness ==
    /\ lastOp.op = "bookSeat" /\ lastOp.seatNumber = Label_0A
    /\ ~lastOp.result
    /\ lastOp.errors[1] = ValidationException("Seat number out of range")

\* C8: for every cell of the grid outside the aisle columns, decoding the
\* label indicesToSeatNumber gives it yields the cell again, and distinct
\* cells get distinct labels.
C8_CodecRoundTrip ==
    /\ \A ij \in SeatCells :
          seatNumberToIndices(totalColumns,
                              indicesToSeatNumber(totalColumns, ij[1], ij[2]))
            = [exc |-> NoException, row |-> ij[1], col |-> ij[2]]
    /\ Cardinality({indicesToSeatNumber(totalColumns, ij[1], ij[2]) : ij \in SeatCells})
          = Cardinality(SeatCells)

\* a label made by indicesToSeatNumber for the last column of the 11-column
\* tier was decoded to that cell by a call
C8_Witness ==
    /\ totalColumns = 11
    /\ lastOp.op = "isSeatAvailable"
    /\ lastOp.seatNumber = indicesToSeatNumber(totalColumns, 0, 10)
    /\ lastOp.cells = {<<0, 10>>}

\* the aisle column indices of the flight
AisleColumns == {j \in 0..(totalColumns - 1) : IsAisle(totalColumns, j)}

\* C9: capacity < 60 gives 5 columns with the aisle at index 2, 60 <=
\* capacity < 150 gives 7 columns with the aisle at index 3, capacity >= 150
\* gives 11 columns with aisles at indices 3 and 8.
C9_LayoutTiers ==
    /\ capacity < 60 => totalColumns = 5 /\ AisleColumns = {2}
    /\ (capacity >= 60 /\ capacity < 150) => totalColumns = 7 /\ AisleColumns = {3}
    /\ capacity >= 150 => totalColumns = 11 /\ AisleColumns = {3, 8}

\* a flight of capacity 60, the first of the 7-column tier
C9_Witness ==
    capacity = 60 /\ totalColumns = 7 /\ lastOp.op = "Flight"

\* C10: every aisle-column cell of every row, the last partial row
\* included, is flagged unavailable.
C10_AisleCellsUnavailable ==
    \A ij \in Cells : IsAisle(totalColumns, ij[2]) => Occupied(ij)

\* C11: no bookSeat or cancelSeat call changes a cell that is not a real
\* seat (an aisle cell or an excess cell of the last row) or changes
\* availableSeats on its account, and the number of bookable cells never
\* exceeds capacity.
C11_NonSeatCellsStayUnavailable ==
    [][lastOp'.op \in {"bookSeat", "cancelSeat"} =>
        /\ \A ij \in lastOp'.cells :
              (InGrid(seatMap, ij[1], ij[2]) /\ ij \notin RealSeats) =>
                  /\ seatMap'[ij[1] + 1][ij[2] + 1] = seatMap[ij[1] + 1][ij[2] + 1]
                  /\ availableSeats' = availableSeats
        /\ CountAvailable(seatMap', totalColumns) <= capacity
    ]_vars

Label_1At == <<49, 64>>

\* C12: a bookSeat or cancelSeat that fails leaves the whole grid and
\* availableSeats as they were before the call; isSeatAvailable and
\* getFirstAvailableSeat change nothing of the flight.
C12_FailedCallsChangeNothing ==
    [][/\ (lastOp'.op \in {"bookSeat", "cancelSeat"} /\ ~lastOp'.result) =>
              seatMap' = seatMap /\ availableSeats' = availableSeats
       /\ lastOp'.op \in {"isSeatAvailable", "getFirstAvailableSeat"} =>
              /\ seatMap' = seatMap /\ availableSeats' = availableSeats
              /\ capacity' = capacity
              /\ seatsPerRow' = seatsPerRow /\ totalColumns' = totalColumns
    ]_vars

\* cancelSeat("1@") refused for its column character while a seat is booked
C12_Witness ==
    /\ lastOp.op = "cancelSeat" /\ lastOp.seatNumber = Label_1At
    /\ ~lastOp.result
    /\ lastOp.errors = <<ValidationException("Invalid column letter in seat")>>
    /\ availableSeats = capacity - 1
    /\ \E ij \in RealSeats : Occupied(ij)

\* the letters A-Z and a-z
ColumnLetters == (65..90) \cup (97..122)

\* the number of aisle columns the tier puts at or before letter index base
AisleShift(base) ==
    IF totalColumns = 5 THEN (IF base >= 2 THEN 1 ELSE 0)
    ELSE IF totalColumns = 7 THEN (IF base >= 3 THEN 1 ELSE 0)
    ELSE IF base >= 7 THEN 2 ELSE IF base >= 3 THEN 1 ELSE 0

\* C13: seatNumberToIndices maps the column letter, in either case, to
\* letter - 'A' plus the shift of the tier (5 columns: +1 from index 2; 7
\* columns: +1 from index 3; 11 columns: +1 for 3 <= index < 7, +2 from
\* index 7), and the row to the parsed number minus 1; the column is never
\* an aisle column of the tier.
C13_DecodeShiftsPastAisles ==
    \A n \in {1, 27}, c \in ColumnLetters :
        \A idx \in {seatNumberToIndices(totalColumns, to_string(n) \o <<c>>)} :
        LET base == IF c >= 97 THEN c - 97 ELSE c - 65
        IN  /\ idx.exc = NoException
            /\ idx.row = n - 1
            /\ idx.col = base + AisleShift(base)
            /\ idx.col \notin AisleColumns

\* bookSeat("1D") took column index 4 of a flight of the 5-column tier
C13_Witness ==
    /\ totalColumns = 5
    /\ lastOp.op = "bookSeat" /\ lastOp.seatNumber = Label_1D
    /\ lastOp.cells = {<<0, 4>>}
    /\ lastOp.result

\* a label made of decimal digits followed by one letter
IsIntegerThenLetter(label) ==
    /\ Len(label) >= 2
    /\ \A k \in 1..(Len(label) - 1) : isdigit(label[k])
    /\ label[Len(label)] \in ColumnLetters

\* C14: seatNumberToIndices fails with a validation error for every label
\* that is shorter than 2 characters, whose characters before the last are
\* not all digits of an integer, or whose last character is not a letter; a
\* call with such a label is refused for it.
C14_OnlyIntegerThenLetterDecodes ==
    (/\ lastOp.op \in {"isSeatAvailable", "bookSeat", "cancelSeat"}
     /\ ~IsIntegerThenLetter(lastOp.seatNumber)) =>
        /\ seatNumberToIndices(totalColumns, lastOp.seatNumber).exc.type
              = "ValidationException"
        /\ ~lastOp.result
        /\ lastOp.cells = {}

\* cell a comes before cell b in row-major order, or is b
RowMajorLeq(a, b) == a[1] < b[1] \/ (a[1] = b[1] /\ a[2] <= b[2])

\* C15: getFirstAvailableSeat returns the label of the first cell in
\* row-major order, aisle columns skipped, that is flagged available, and
\* the empty string exactly when there is no such cell; a label it returns
\* makes isSeatAvailable true and bookSeat succeed.
C15_FirstAvailableSeat ==
    lastOp.op = "getFirstAvailableSeat" =>
        \A free \in {{ij \in SeatCells : ~Occupied(ij)}} :
        \A idx \in {seatNumberToIndices(totalColumns, lastOp.seatNumber)} :
            /\ (lastOp.seatNumber = <<>>) <=> (free = {})
            /\ lastOp.seatNumber # <<>> =>
                  /\ idx.exc = NoException
                  /\ <<idx.row, idx.col>> \in free
                  /\ \A other \in free : RowMajorLeq(<<idx.row, idx.col>>, other)
                  /\ isSeatAvailable(seatMap, totalColumns, lastOp.seatNumber,
                                     FALSE).result
                  /\ bookSeat(seatMap, availableSeats, totalColumns,
                              lastOp.seatNumber, FALSE).result

\* getFirstAvailableSeat skipped the booked seat 1A of a two-row flight and
\* returned the next seat of the first row
C15_Witness ==
    /\ lastOp.op = "getFirstAvailableSeat"
    /\ Len(seatMap) = 2
    /\ Occupied(<<0, 0>>)
    /\ lastOp.seatNumber = indicesToSeatNumber(totalColumns, 0, 1)

\* C16: after setCapacity(c) every row has the totalColumns cells of the
\* tier of c, the number of available cells outside the aisle columns is c,
\* and availableSeats is that number.
C16_SetCapacityRelayout ==
    lastOp.op = "setCapacity" =>
        /\ \A i \in 1..Len(seatMap) : Len(seatMap[i]) = totalColumns
        /\ totalColumns = calculateSeatLayout(capacity).totalColumns
        /\ CountAvailable(seatMap, totalColumns) = capacity
        /\ availableSeats = CountAvailable(seatMap, totalColumns)

\* C17: when loadFlights reads the flight's record and its seat-map file is
\* missing or empty, the flight gets the grid initializeSeatMap builds for
\* the stored capacity, the grid of a newly created flight of that
\* capacity, and loading reports no failure.
C17_MissingSeatMapRebuilt ==
    (lastOp.op = "loadFlights" /\ lastOp.result /\ seatmapFile = <<>>) =>
        \A layout \in {calculateSeatLayout(capacity)} :
            /\ seatsPerRow = layout.seatsPerRow
            /\ totalColumns = layout.totalColumns
            /\ seatMap = initializeSeatMap(<<>>, capacity, layout.seatsPerRow,
                                           layout.totalColumns)
            /\ lastOp.errors = <<>>

\* a flight with one seat booked was loaded without its seat-map file and
\* has all its cells free again
C17_Witness ==
    /\ lastOp.op = "loadFlights" /\ lastOp.result
    /\ seatmapFile = <<>>
    /\ availableSeats = capacity - 1
    /\ Len(seatMap) >= 1
    /\ ~Occupied(<<0, 0>>)

\* C18: after loadFlights every row of the flight's grid has exactly
\* totalColumns cells, and no isSeatAvailable, bookSeat or cancelSeat call
\* indexes a cell outside a row.
C18_LoadedGridMatchesLayout ==
    /\ (lastOp.op = "loadFlights" /\ lastOp.result) =>
          \A i \in 1..Len(seatMap) : Len(seatMap[i]) = totalColumns
    /\ lastOp.op \in {"isSeatAvailable", "bookSeat", "cancelSeat"} =>
          \A ij \in lastOp.cells : InGrid(seatMap, ij[1], ij[2])

\* C19: loadFlights on the seat-map file saveToFile wrote for the grid in
\* memory yields that grid: the same rows, the same cells in each row, the
\* same flag in every cell.
C19_SeatMapRoundTrip ==
    [][(/\ lastOp'.op = "loadFlights" /\ lastOp'.result
        /\ seatmapFile = saveDataOverwrite(SeatMapText(seatMap))) =>
            /\ seatMap' = seatMap
            /\ Len(seatMap') = Len(seatMap)
            /\ \A i \in 1..Len(seatMap) :
                  /\ Len(seatMap'[i]) = Len(seatMap[i])
                  /\ \A j \in 1..Len(seatMap[i]) : seatMap'[i][j] = seatMap[i][j]
    ]_vars

\* a two-row grid with seats 1A and 2A booked was loaded from its file
C19_Witness ==
    /\ lastOp.op = "loadFlights" /\ lastOp.result
    /\ Len(seatMap) = 2
    /\ Occupied(<<0, 0>>) /\ Occupied(<<1, 0>>) /\ ~Occupied(<<0, 1>>)
    /\ seatmapFile = saveDataOverwrite(SeatMapText(seatMap))

\* the seat cell a reservation refers to: the indices its label decodes to
\* in the layout of its flight
ReservedCell(r) ==
    LET flight == flights[FirstIndex({k \in 1..Len(flights) :
                            equalsIgnoreCase(flights[k].flightID, r.flightID)})]
        idx    == seatNumberToIndices(flight.totalColumns, r.seatNumber)
    IN  <<idx.row, idx.col>>

\* C20: no two reservations in the reservation list refer to the same
\* flight and the same seat cell.
C20_NoSeatReservedTwice ==
    \A i \in 1..Len(reservations), j \in 1..Len(reservations) :
        (/\ i < j
         /\ equalsIgnoreCase(reservations[i].flightID, reservations[j].flightID)) =>
            ReservedCell(reservations[i]) # ReservedCell(reservations[j])

\* two reservations of the second flight, for its seats 1a and 1B
C20_Witness ==
    /\ Len(reservations) = 2
    /\ reservations[1].flightID = flights[2].flightID
    /\ reservations[2].flightID = flights[2].flightID
    /\ reservations[1].seatNumber = <<49, 97>>
    /\ reservations[2].seatNumber = <<49, 66>>
    /\ isFullyBooked(flights[2].availableSeats)
    /\ lastOp.op = "bookFlight"

\* C21: a reservation enters the reservation list only in a step whose
\* bookSeat call on the flight and seat it names returns true.
C21_ReservationOnlyAfterBookSeat ==
    [][Len(reservations') > Len(reservations) =>
          \A r \in {reservations'[Len(reservations')]} :
              /\ Len(reservations') = Len(reservations) + 1
              /\ SubSeq(reservations', 1, Len(reservations)) = reservations
              /\ lastOp'.op \in {"bookFlight", "promote"}
              /\ lastOp'.result
              /\ \E f \in 1..Len(flights) :
                    /\ flights[f].flightID = r.flightID
                    /\ bookSeatOn(f, r.seatNumber).result
                    /\ flights' = FlightsWith(f, bookSeatOn(f, r.seatNumber))]_vars

\* a promotion has just created the only reservation, for the seat of the
\* first flight that a cancellation had freed
C21_Witness ==
    /\ lastOp.op = "promote" /\ lastOp.result
    /\ Len(reservations) = 1
    /\ reservations[1].flightID = flights[1].flightID
    /\ reservations[1].seatNumber \in MenuLabels
    /\ flights[1].seatMap[1][1]
    /\ waitingLists[1] = <<>>

\* C22: a customer's cancellation and an admin's deletion of a reservation
\* remove that reservation from the list, make its seat available again on
\* its flight, raise that flight's availableSeats by exactly 1 and change no
\* other flight.
C22_CancellationFreesTheSeat ==
    [][lastOp'.op \in {"cancelBooking", "deleteReservation"} =>
          \E k \in 1..Len(reservations) :
              \E f \in {FirstIndex({g \in 1..Len(flights) :
                              equalsIgnoreCase(flights[g].flightID,
                                               reservations[k].flightID)})} :
                  /\ reservations' = erase(reservations, k)
                  /\ f # 0
                  /\ ~isSeatAvailable(flights[f].seatMap, flights[f].totalColumns,
                                      reservations[k].seatNumber, FALSE).result
                  /\ isSeatAvailable(flights'[f].seatMap, flights'[f].totalColumns,
                                     reservations[k].seatNumber, FALSE).result
                  /\ flights'[f].availableSeats = flights[f].availableSeats + 1
                  /\ Len(flights') = Len(flights)
                  /\ \A g \in 1..Len(flights) : g # f => flights'[g] = flights[g]]_vars

\* a customer has cancelled one of the two bookings of the second flight
C22_Witness ==
    /\ lastOp.op = "cancelBooking"
    /\ Len(reservations) = 1
    /\ reservations[1].flightID = flights[2].flightID
    /\ flights[2].availableSeats = 1
    /\ flights[1].availableSeats = 1

\* C23: a promotion asked for a flight whose isFullyBooked() is true ends
\* with a BookingException: no seat is booked, no reservation is created and
\* the waiting list is unchanged.
C23_PromotionIntoFullFlightRefused ==
    [][(/\ lastOp'.op = "promote"
        /\ isFullyBooked(flights[lastOp'.flight].availableSeats)) =>
          /\ lastOp'.error.type = "BookingException"
          /\ ~lastOp'.result
          /\ flights' = flights
          /\ reservations' = reservations
          /\ waitingLists' = waitingLists]_vars

\* a promotion has just been refused on the first flight, which is full and
\* has a passenger waiting
C23_Witness ==
    /\ lastOp.op = "promote"
    /\ lastOp.flight = 1
    /\ lastOp.error.type = "BookingException"
    /\ isFullyBooked(flights[1].availableSeats)
    /\ waitingLists[1] # <<>>
    /\ Len(reservations) = 1

\* C24: each waiting list is first in, first out.  Joining appends at the
\* tail; getNextPassenger names the front entry ("" on an empty list); a
\* confirmed promotion writes the reservation for that front passenger and
\* removes that entry alone; and every step keeps the remaining entries in
\* their order.
C24_WaitingListIsFIFO ==
    [][/\ lastOp'.op = "joinWaitingList" =>
            \E f \in 1..Len(waitingLists), u \in Usernames :
                waitingLists' = [waitingLists EXCEPT ![f] = Append(@, u)]
       /\ (lastOp'.op = "promote" /\ lastOp'.result) =>
            \A f \in {lastOp'.flight} :
                /\ waitingLists[f] # <<>>
                /\ getNextPassenger(waitingLists[f]) = waitingLists[f][1]
                /\ reservations'[Len(reservations')].username = waitingLists[f][1]
                /\ waitingLists' = [waitingLists EXCEPT ![f] = Tail(@)]
       /\ getNextPassenger(<<>>) = <<>>
       /\ \A f \in 1..Len(waitingLists) :
            \/ waitingLists'[f] = waitingLists[f]
            \/ \E u \in Usernames : waitingLists'[f] = Append(waitingLists[f], u)
            \/ \E k \in 1..Len(waitingLists[f]) :
                  waitingLists'[f] = erase(waitingLists[f], k)]_vars

\* ana, who joined before ben, has just been promoted and ben still waits
C24_Witness ==
    /\ lastOp.op = "promote" /\ lastOp.result
    /\ waitingLists[1] = <<Ben>>
    /\ reservations[Len(reservations)].username = Ana
    /\ reservations[Len(reservations)].reservationID = RES \o to_string(10002)

\* the number after the prefix of an ID
IDSuffix(id, prefix) == stoi(SubSeq(id, Len(prefix) + 1, Len(id))).val

\* the IDs of a set that start with the prefix
WithPrefix(ids, prefix) ==
    {id \in ids : Len(id) >= Len(prefix) /\ SubSeq(id, 1, Len(prefix)) = prefix}

\* C25: within one run, each ID generateID returns has a number above 10000,
\* above the number of every ID it returned before for the same prefix and
\* above the number of every ID with that prefix that was on the prefix's
\* file when generateID first read it; so it equals no ID returned before
\* and no ID on file at seeding.
C25_GeneratedIDsAreFresh ==
    [][lastOp'.op = "generateID" /\ lastOp' # lastOp =>
          \A n \in {IDSuffix(lastOp'.id, lastOp'.prefix)} :
              /\ lastOp'.id = lastOp'.prefix \o to_string(n)
              /\ n > 10000
              /\ \A old \in WithPrefix(lastOp.issued, lastOp'.prefix) :
                    n > IDSuffix(old, lastOp'.prefix)
              /\ \A old \in WithPrefix(lastOp'.onFile, lastOp'.prefix) :
                    n > IDSuffix(old, lastOp'.prefix)
              /\ lastOp'.id \notin lastOp.issued \cup lastOp'.onFile
              /\ lastOp'.issued = lastOp.issued \cup {lastOp'.id}]_vars

\* flights.txt held FL10002 and FL10004 and reservations.txt RES10001 and
\* RES10005 when the run began; it has since generated FL10005, RES10006
\* and FL10006
C25_Witness ==
    /\ lastOp.op = "generateID"
    /\ lastOp.onFile = {FL \o to_string(10002), FL \o to_string(10004),
                        RES \o to_string(10001), RES \o to_string(10005)}
    /\ lastOp.issued = {FL \o to_string(10005), RES \o to_string(10006),
                        FL \o to_string(10006)}
    /\ lastOp.id = FL \o to_string(10006)

\* C26: in every state reached from a new flight by bookSeat and cancelSeat
\* calls, isFullyBooked() is true exactly when getFirstAvailableSeat()
\* returns the empty string.
C26_FullExactlyWhenNoSeatIsOffered ==
    isFullyBooked(availableSeats) <=>
        getFirstAvailableSeat(seatMap, totalColumns) = <<>>

\* the real seats of a flight of the list: the cells outside the aisle
\* columns that its constructor left available
RealSeatsOf(flight) ==
    UNION {{ij \in UNION {{<<i, j>> : j \in 0..(Len(fresh[i + 1]) - 1)} :
                              i \in 0..(Len(fresh) - 1)} :
                ~IsAisle(flight.totalColumns, ij[2]) /\ ~fresh[ij[1] + 1][ij[2] + 1]} :
            fresh \in {initializeSeatMap(<<>>, flight.capacity, flight.seatsPerRow,
                                         flight.totalColumns)}}

\* C27: after any sequence of bookings, promotions, cancellations, admin
\* deletions of a reservation and admin deletions of a customer account,
\* every occupied real seat of a flight is named by exactly one reservation
\* of that flight.
C27_OccupiedSeatsHaveOneReservation ==
    \A f \in 1..Len(flights) :
        \A ij \in RealSeatsOf(flights[f]) :
            flights[f].seatMap[ij[1] + 1][ij[2] + 1] =>
                Cardinality({k \in 1..Len(reservations) :
                                /\ equalsIgnoreCase(reservations[k].flightID,
                                                    flights[f].flightID)
                                /\ ReservedCell(reservations[k]) = ij}) = 1
\* the flight IDs the run has given out that belong to no flight any more
DeletedFlightNumbers ==
    {n \in 1..Len(waitingLists) :
        \A f \in 1..Len(flights) : flights[f].flightID # FL \o to_string(10000 + n)}

\* C28: once the deletion of a flight is confirmed nothing refers to the
\* flight any more: no reservation carries its flight ID, the waitingLists
\* map holds no passengers for it, and there is no waitinglists file for it,
\* whatever its waiting list held when it was deleted.
C28_DeletedFlightLeavesNoRecord ==
    \A n \in DeletedFlightNumbers :
        /\ \A k \in 1..Len(reservations) :
              ~equalsIgnoreCase(reservations[k].flightID, FL \o to_string(10000 + n))
        /\ waitingLists[n] = <<>>
        /\ waitinglistFiles[n] = <<>>

\* C29: whatever customers joining and admins promoting or removing have
\* done, no username stands twice in the waiting list of one flight.
C29_UsernameWaitsAtMostOnce ==
    \A f \in 1..Len(waitingLists) :
        \A j, k \in 1..Len(waitingLists[f]) :
            waitingLists[f][j] = waitingLists[f][k] => j = k

\* C30: when loadFlights reads the flights.txt that saveAllFlights wrote for
\* the flights in memory, it yields the same flights: as many, and each with
\* the flightID, airlineName, planeID, capacity, availableSeats, destination,
\* departureTime, arrivalTime and status it had, whatever the admin typed
\* when creating or editing it.
C30_SaveLoadPreservesFields ==
    [][(/\ lastOp'.op = "loadFlights"
        /\ flightsFile = FlightsFileText(flights)) =>
            /\ Len(flights') = Len(flights)
            /\ \A f \in 1..Len(flights) :
                  /\ f \in 1..Len(flights')
                  /\ flights'[f].flightID = flights[f].flightID
                  /\ flights'[f].airlineName = flights[f].airlineName
                  /\ flights'[f].planeID = flights[f].planeID
                  /\ flights'[f].capacity = flights[f].capacity
                  /\ flights'[f].availableSeats = flights[f].availableSeats
                  /\ flights'[f].destination = flights[f].destination
                  /\ flights'[f].departureTime = flights[f].departureTime
                  /\ flights'[f].arrivalTime = flights[f].arrivalTime
                  /\ flights'[f].status = flights[f].status
    ]_vars

====
